---- MODULE Spec2Model ----
(***************************************************************************)
(* Verlet particle simulation of src/src/procanim/mod.rs (after Jakobsen,  *)
(* "Advanced Character Physics"): particles, distance links, the per-link  *)
(* relaxation loop, the containment box, the fixed-timestep tick and the   *)
(* scene reset.                                                            *)
(*                                                                         *)
(* Numbers.  An f32 is modelled as a fixed-point integer counting units of *)
(* 1/SCALE, or the value NaN.  Every arithmetic result is rounded to the   *)
(* nearest unit (ties away from zero), the way every f32 result is rounded *)
(* to the nearest representable value.  0/0 is NaN, NaN propagates through *)
(* arithmetic, NaN compares unequal to everything including itself, and    *)
(* f32::max / f32::min return the other operand when one operand is NaN.   *)
(* A Vec3 is a triple <<x, y, z>> of such numbers.                         *)
(***************************************************************************)
EXTENDS Integers, Sequences, FiniteSets, TLC

\* ------------------------------------------------------------------ bounds
\* fixed-point resolution: units per 1.0
SCALE == 20
\* simulation ticks explored
MaxTicks == 14
\* scene resets explored
MaxResets == 2
\* direct calls of ParticleLink::satisfy_constraints explored
MaxCalls == 2
\* "within tolerance": units of 1/SCALE a position or length may be off by
Tolerance == 2
\* resolution of a mass: units per 1.0
MASS_SCALE == 100000
\* resolution of an inverse mass: units per 1.0
INV_SCALE == 4

\* ------------------------------------------------------------- f32 numbers
\* the f32 NaN (a value outside the range of every finite number used)
NaN == -1000000000

IsNaN(x) == x = NaN

Abs(x) == IF x < 0 THEN -x ELSE x

Sign(x) == IF x < 0 THEN -1 ELSE 1

\* round(n / d) for d > 0, ties away from zero
RoundDiv(n, d) == Sign(n) * ((2 * Abs(n) + d) \div (2 * d))

\* the f32 nearest to the decimal literal n/d
Lit(n, d) == RoundDiv(n * SCALE, d)

FAdd(a, b) == IF IsNaN(a) \/ IsNaN(b) THEN NaN ELSE a + b

FSub(a, b) == IF IsNaN(a) \/ IsNaN(b) THEN NaN ELSE a - b

\* f32 ==
FEq(a, b) == ~IsNaN(a) /\ ~IsNaN(b) /\ a = b

\* f32::max and f32::min: a NaN operand is ignored
FMax(a, b) == IF IsNaN(a) THEN b ELSE IF IsNaN(b) THEN a ELSE IF a > b THEN a ELSE b

FMin(a, b) == IF IsNaN(a) THEN b ELSE IF IsNaN(b) THEN a ELSE IF a < b THEN a ELSE b

\* f32::sqrt of a non-negative integer, rounded to the nearest integer
RECURSIVE SqrtSearch(_, _, _)
SqrtSearch(n, lo, hi) ==
    IF lo >= hi THEN lo
    ELSE LET mid == (lo + hi + 1) \div 2
         IN IF mid * mid <= n THEN SqrtSearch(n, mid, hi) ELSE SqrtSearch(n, lo, mid - 1)

FSqrt(n) ==
    LET r == SqrtSearch(n, 0, 46340)
    IN IF n - r * r > r THEN r + 1 ELSE r

\* ------------------------------------------------------------------- Vec3
Vec3New(x, y, z) == <<x, y, z>>

Vec3ZERO == <<0, 0, 0>>

Vec3NaN == <<NaN, NaN, NaN>>

VAdd(u, v) == <<FAdd(u[1], v[1]), FAdd(u[2], v[2]), FAdd(u[3], v[3])>>

VSub(u, v) == <<FSub(u[1], v[1]), FSub(u[2], v[2]), FSub(u[3], v[3])>>

\* Vec3 == (component-wise f32 ==)
VEq(u, v) == FEq(u[1], v[1]) /\ FEq(u[2], v[2]) /\ FEq(u[3], v[3])

VIsFinite(u) == ~IsNaN(u[1]) /\ ~IsNaN(u[2]) /\ ~IsNaN(u[3])

\* Vec3::length
VLength(u) ==
    IF ~VIsFinite(u) THEN NaN ELSE FSqrt(u[1] * u[1] + u[2] * u[2] + u[3] * u[3])

\* Vec3::clamp(min, max) == self.max(min).min(max)
VClamp(u, lo, hi) ==
    <<FMin(FMax(u[1], lo[1]), hi[1]),
      FMin(FMax(u[2], lo[2]), hi[2]),
      FMin(FMax(u[3], lo[3]), hi[3])>>

\* f32 * f32
FMul(a, b) == IF IsNaN(a) \/ IsNaN(b) THEN NaN ELSE RoundDiv(a * b, SCALE)

\* a 24-bit significand: the spacing of the f32 values around x >= 0
RECURSIVE Ulp(_)
Ulp(x) == IF x < 16777216 THEN 1 ELSE 2 * Ulp(x \div 2)

\* x >= 0 rounded to 24 significant bits
F32Round(x) == LET u == Ulp(x) IN ((x + u \div 2) \div u) * u

RECURSIVE GCD(_, _)
GCD(a, b) == IF b = 0 THEN a ELSE GCD(b, a % b)

\* round((n * p) / (d * q)) for d, p, q > 0, computed without leaving 32 bits:
\* p/q is reduced first, and a quotient too large to multiply out is divided
\* in two steps
MulDiv(n, p, d, q) ==
    LET g  == GCD(p, q)
        pr == p \div g
        qr == q \div g
    IN IF qr <= 1000 THEN RoundDiv(n * pr, d * qr)
       ELSE RoundDiv(RoundDiv(n * pr, d), qr)

\* --------------------------------------------------------------- constants
NUM_ITERATIONS == 5

PHYSICS_SCALE == Lit(15, 1)

BOTTOM_BOUND == Vec3New(Lit(-300, 1), Lit(-300, 1), 0)

TOP_BOUND == Vec3New(0, 0, 0)

PARTICLE_START == Vec3New(Lit(-150, 1), Lit(-150, 1), 0)

PARTICLE_START_PREV_OFFSET == Vec3New(0, FMul(PHYSICS_SCALE, Lit(-25, 100)), 0)

DEFAULT_PARTICLE_GRAVITY == Vec3New(0, FMul(PHYSICS_SCALE, Lit(-981, 100)), 0)

\* a mass literal n/d
MassLit(n, d) == RoundDiv(n * MASS_SCALE, d)

\* the 0.0001 of `mass.abs() < 0.0001`
MASS_EPSILON == MassLit(1, 10000)

\* the 100_000_000.0 substituted for the inverse of a near-zero mass
INV_MASS_SENTINEL == 100000000 * INV_SCALE

\* ---------------------------------------------------------------- Particle
\* Particle::default().mass
DefaultMass == MassLit(1, 1)

\* Particle::satisfy_constraints: the containment box
ParticleSatisfyConstraints(tx) == VClamp(tx, BOTTOM_BOUND, TOP_BOUND)

InBox(tx) ==
    /\ VIsFinite(tx)
    /\ \A c \in 1..3 : BOTTOM_BOUND[c] <= tx[c] /\ tx[c] <= TOP_BOUND[c]

\* ------------------------------------------------------------ ParticleLink
\* ParticleLinkType: [kind |-> "Exact" | "Min" | "Max", len |-> f32]
Exact(len) == [kind |-> "Exact", len |-> len]

Min(len) == [kind |-> "Min", len |-> len]

Max(len) == [kind |-> "Max", len |-> len]

\* the match of link_constraint: the length the link asks for
LinkLength(link_type, delta_length) ==
    CASE link_type.kind = "Exact" -> link_type.len
      [] link_type.kind = "Min"   -> FMax(delta_length, link_type.len)
      [] link_type.kind = "Max"   -> FMin(delta_length, link_type.len)

\* mutant of InvMass: a near-zero mass all but pins the particle (the
\* smallest inverse mass instead of the largest)
InvMassPinned(mass) ==
    IF Abs(mass) < MASS_EPSILON THEN 1
    ELSE RoundDiv(INV_SCALE * MASS_SCALE, mass)

\* inv_mass_1 / inv_mass_2 of link_constraint, for a mass >= 0
InvMass(mass) ==
    IF Abs(mass) < MASS_EPSILON THEN INV_MASS_SENTINEL
    ELSE RoundDiv(INV_SCALE * MASS_SCALE, mass)

\* mutant of Displacement: delta taken as tx1 - tx2
DisplacementReversed(inv_mass, delta_c, delta_length, link_length, inv_sum) ==
    MulDiv((0 - delta_c) * (delta_length - link_length), inv_mass, 2 * delta_length,
           inv_sum)

\* inv_mass_i * link_diff, one component: delta_c is the component of delta,
\* link_diff = delta * 0.5 * (delta_length - link_length)
\*             / (delta_length * (inv_mass_1 + inv_mass_2))
Displacement(inv_mass, delta_c, delta_length, link_length, inv_sum) ==
    MulDiv(delta_c * (delta_length - link_length), inv_mass, 2 * delta_length, inv_sum)

\* ParticleLink::link_constraint: the new <<tx1, tx2>>
link_constraint(tx1, mass1, tx2, mass2, link_type) ==
    LET delta        == VSub(tx2, tx1)
        delta_length == VLength(delta)
        link_length  == LinkLength(link_type, delta_length)
        inv_mass_1   == InvMass(mass1)
        inv_mass_2   == InvMass(mass2)
        inv_sum      == F32Round(inv_mass_1 + inv_mass_2)
        move(inv_mass) ==
            [c \in 1..3 |->
                Displacement(inv_mass, delta[c], delta_length, link_length, inv_sum)]
    IN IF IsNaN(delta_length) \/ delta_length = 0
       THEN <<Vec3NaN, Vec3NaN>>    \* 0.0 / 0.0, or NaN in, is NaN out
       ELSE <<VAdd(tx1, move(inv_mass_1)), VSub(tx2, move(inv_mass_2))>>

\* ------------------------------------------------------------------- state
VARIABLES
    particles,   \* entity |-> [translation, tx_prev, acceleration, mass]: the
                 \* Transform and Particle components of the live particles
    order,       \* the particle entities in table (spawn) order
    links,       \* the ParticleLink components in table (spawn) order
    gravity,     \* the ParticleGravity resource
    dt,          \* time.delta_seconds() of FixedUpdate, in 1/64 s
    pc,          \* "idle" | "integrate" | "relax" | "clamp" | "panicked"
    idx,         \* position of the running `for` loop over particles or links
    iter,        \* 0 before get_many_mut, else the iteration 1..=NUM_ITERATIONS
    caller,      \* who called ParticleLink::satisfy_constraints
    ticks,       \* FixedUpdate runs started
    resets,      \* reset_particles runs
    calls,       \* direct calls made by the harness
    nextEntity,  \* the next entity id the allocator hands out
    integrated,  \* entity |-> integrations in the current tick
    relaxed,     \* link index |-> satisfy_constraints calls in the current tick
    clamped      \* particles moved by constrain_unliked_particles this tick

vars == <<particles, order, links, gravity, dt, pc, idx, iter, caller, ticks,
          resets, calls, nextEntity, integrated, relaxed, clamped>>

\* ---------------------------------------------------------------- Particle
\* Particle { tx_prev, ..Default::default() } on a Transform at translation
NewParticle(translation, tx_prev, mass) ==
    [translation |-> translation, tx_prev |-> tx_prev,
     acceleration |-> Vec3ZERO, mass |-> mass]

\* Particle::accumulate_forces
accumulate_forces(p, force) == [p EXCEPT !.acceleration = force]

\* acceleration * dt * dt, one component; d is dt in 1/64 s
AccelTerm(a, d) == IF IsNaN(a) THEN NaN ELSE RoundDiv(a * d * d, 64 * 64)

\* mutant of verlet: tx_prev is taken after the position is overwritten
verletPrevAfter(p, d) ==
    LET x_prime ==
            [c \in 1..3 |->
                FAdd(FSub(FAdd(p.translation[c], p.translation[c]), p.tx_prev[c]),
                     AccelTerm(p.acceleration[c], d))]
    IN [p EXCEPT !.tx_prev = x_prime, !.translation = x_prime]

\* Particle::verlet
verlet(p, d) ==
    LET x_prime ==
            [c \in 1..3 |->
                FAdd(FSub(FAdd(p.translation[c], p.translation[c]), p.tx_prev[c]),
                     AccelTerm(p.acceleration[c], d))]
    IN [p EXCEPT !.tx_prev = p.translation, !.translation = x_prime]

\* ------------------------------------------------------------------- scene
Link(a, b, link_type) == [a |-> a, b |-> b, link_type |-> link_type]

\* the offset of a demo particle from PARTICLE_START
Offset(x, y) == VAdd(Vec3New(Lit(x, 1), Lit(y, 1), 0), PARTICLE_START)

DemoParticle(x, y, px, py) ==
    NewParticle(Offset(x, y), VAdd(Offset(px, py), PARTICLE_START_PREV_OFFSET),
                DefaultMass)

\* spawn_demo_particles: the particles and links it spawns, the first entity
\* being e0 (the free particle, then a, b, c, d, e, f)
DemoParticles(e0) ==
    (e0     :> DemoParticle(0, 0, 0, 0))
 @@ (e0 + 1 :> DemoParticle(25, 10, 22, 10))
 @@ (e0 + 2 :> DemoParticle(47, 12, 47, 12))
 @@ (e0 + 3 :> DemoParticle(17, 22, 17, 22))
 @@ (e0 + 4 :> DemoParticle(1, 42, 17, 22))
 @@ (e0 + 5 :> DemoParticle(-5, 30, 17, 22))
 @@ (e0 + 6 :> DemoParticle(-5, 30, 17, 22))

DemoOrder(e0) == [i \in 1..7 |-> e0 + i - 1]

DemoLinks(e0) ==
    LET a == e0 + 1
        b == e0 + 2
        c == e0 + 3
        d == e0 + 4
        e == e0 + 5
        f == e0 + 6
    IN << Link(a, b, Exact(Lit(15, 1))),
          Link(a, c, Exact(Lit(25, 1))),
          Link(b, c, Exact(Lit(15, 1))),
          Link(c, d, Max(Lit(30, 1))),
          Link(d, f, Exact(Lit(91, 10))),
          Link(d, e, Exact(Lit(111, 10))),
          Link(e, f, Min(Lit(10, 1))) >>

\* entities one spawn_demo_particles reserves: 7 particles and 7 links
DemoEntities == 14

\* values of dt the host's fixed timestep takes, in 1/64 s
DtChoices == {1, 2}

NoCounts == [e \in {} |-> 0]

\* the state after OnEnter(Screen::Playing): spawn_particle has run
Init ==
    /\ particles = DemoParticles(0)
    /\ order = DemoOrder(0)
    /\ links = DemoLinks(0)
    /\ gravity = DEFAULT_PARTICLE_GRAVITY
    /\ dt \in DtChoices
    /\ pc = "idle"
    /\ idx = 1
    /\ iter = 0
    /\ caller = "update_particles"
    /\ ticks = 0
    /\ resets = 0
    /\ calls = 0
    /\ nextEntity = DemoEntities
    /\ integrated = NoCounts
    /\ relaxed = <<>>
    /\ clamped = 0

\* -------------------------------------------------------------------- tick
\* the first stage at or after `stage` that has something to loop over
RECURSIVE Stage(_)
Stage(stage) ==
    CASE stage = "integrate" -> IF Len(order) > 0 THEN stage ELSE Stage("relax")
      [] stage = "relax"     -> IF Len(links) > 0 THEN stage ELSE Stage("clamp")
      [] stage = "clamp"     -> IF Len(order) > 0 THEN stage ELSE "idle"

\* FixedUpdate starts update_particles
BeginTick ==
    /\ pc = "idle"
    /\ ticks < MaxTicks
    /\ ticks' = ticks + 1
    /\ pc' = Stage("integrate")
    /\ idx' = 1
    /\ iter' = 0
    /\ caller' = "update_particles"
    /\ integrated' = [e \in DOMAIN particles |-> 0]
    /\ relaxed' = [i \in 1..Len(links) |-> 0]
    /\ clamped' = 0
    /\ UNCHANGED <<particles, order, links, gravity, dt, resets, calls, nextEntity>>

\* mutant of Integrate: the loop over the particles stops one short
IntegrateOneShort ==
    /\ pc = "integrate"
    /\ LET e == order[idx]
       IN /\ particles' =
                [particles EXCEPT ![e] = verlet(accumulate_forces(@, gravity), dt)]
          /\ integrated' = [integrated EXCEPT ![e] = @ + 1]
    /\ IF idx >= Len(order) - 1
       THEN pc' = Stage("relax") /\ idx' = 1
       ELSE pc' = pc /\ idx' = idx + 1
    /\ UNCHANGED <<order, links, gravity, dt, iter, caller, ticks, resets, calls,
                   nextEntity, relaxed, clamped>>

\* update_particles, first loop: one particle
Integrate ==
    /\ pc = "integrate"
    /\ LET e == order[idx]
       IN /\ particles' =
                [particles EXCEPT ![e] = verlet(accumulate_forces(@, gravity), dt)]
          /\ integrated' = [integrated EXCEPT ![e] = @ + 1]
    /\ IF idx = Len(order)
       THEN pc' = Stage("relax") /\ idx' = 1
       ELSE pc' = pc /\ idx' = idx + 1
    /\ UNCHANGED <<order, links, gravity, dt, iter, caller, ticks, resets, calls,
                   nextEntity, relaxed, clamped>>

\* Query::get_many_mut([a, b]): both entities live particles, and distinct
GetManyMutOk(a, b) == a \in DOMAIN particles /\ b \in DOMAIN particles /\ a # b

\* mutant of SatisfyConstraintsEnter: a link whose particles cannot be
\* fetched is skipped
SatisfyConstraintsSkip ==
    /\ pc = "relax"
    /\ iter = 0
    /\ IF GetManyMutOk(links[idx].a, links[idx].b)
       THEN pc' = pc /\ iter' = 1 /\ idx' = idx
       ELSE /\ iter' = iter
            /\ IF caller = "update_particles"
               THEN IF idx = Len(links)
                    THEN pc' = "clamp" /\ idx' = 1
                    ELSE pc' = pc /\ idx' = idx + 1
               ELSE pc' = "idle" /\ idx' = 1
    /\ relaxed' = IF caller = "update_particles"
                  THEN [relaxed EXCEPT ![idx] = @ + 1] ELSE relaxed
    /\ UNCHANGED <<particles, order, links, gravity, dt, caller, ticks, resets,
                   calls, nextEntity, integrated, clamped>>

\* ParticleLink::satisfy_constraints, entry: get_many_mut(..).expect(..)
SatisfyConstraintsEnter ==
    /\ pc = "relax"
    /\ iter = 0
    /\ IF GetManyMutOk(links[idx].a, links[idx].b)
       THEN pc' = pc /\ iter' = 1
       ELSE pc' = "panicked" /\ iter' = iter
    /\ relaxed' = IF caller = "update_particles"
                  THEN [relaxed EXCEPT ![idx] = @ + 1] ELSE relaxed
    /\ UNCHANGED <<particles, order, links, gravity, dt, idx, caller, ticks, resets,
                   calls, nextEntity, integrated, clamped>>

\* mutant of LoopBody: the clamp follows the link constraint in the iteration
LoopBodyClampLast(link) ==
    LET after == link_constraint(particles[link.a].translation,
                                 particles[link.a].mass,
                                 particles[link.b].translation,
                                 particles[link.b].mass,
                                 link.link_type)
    IN <<ParticleSatisfyConstraints(after[1]), ParticleSatisfyConstraints(after[2])>>

\* one pass of the body of the relaxation loop: the new <<tx_a, tx_b>>
LoopBody(link) ==
    link_constraint(ParticleSatisfyConstraints(particles[link.a].translation),
                    particles[link.a].mass,
                    ParticleSatisfyConstraints(particles[link.b].translation),
                    particles[link.b].mass,
                    link.link_type)

\* mutant of Converged: each endpoint is compared with the other's old position
ConvergedCrossed(after, before1, before2) ==
    VEq(after[1], before2) /\ VEq(after[2], before1)

\* the `break` of the relaxation loop
Converged(after, before1, before2) == VEq(after[1], before1) /\ VEq(after[2], before2)

\* ParticleLink::satisfy_constraints: one iteration of the relaxation loop
LoopIteration ==
    /\ pc = "relax"
    /\ iter >= 1
    /\ LET link    == links[idx]
           before1 == particles[link.a].translation
           before2 == particles[link.b].translation
           after   == LoopBody(link)
       IN /\ particles' = [particles EXCEPT ![link.a].translation = after[1],
                                            ![link.b].translation = after[2]]
          /\ IF Converged(after, before1, before2) \/ iter = NUM_ITERATIONS
             THEN /\ iter' = 0
                  /\ IF caller = "update_particles"
                     THEN IF idx = Len(links)
                          THEN pc' = Stage("clamp") /\ idx' = 1
                          ELSE pc' = pc /\ idx' = idx + 1
                     ELSE pc' = "idle" /\ idx' = 1
             ELSE iter' = iter + 1 /\ pc' = pc /\ idx' = idx
    /\ UNCHANGED <<order, links, gravity, dt, caller, ticks, resets, calls,
                   nextEntity, integrated, relaxed, clamped>>

\* a link names the entity
Linked(e) == \E i \in 1..Len(links) : links[i].a = e \/ links[i].b = e

\* mutant of ConstrainUnlinked: only the particles no link names are clamped
ConstrainOnlyUnlinked ==
    /\ pc = "clamp"
    /\ LET e  == order[idx]
           tx == IF Linked(e) THEN particles[e].translation
                 ELSE ParticleSatisfyConstraints(particles[e].translation)
       IN /\ particles' = [particles EXCEPT ![e].translation = tx]
          /\ clamped' = IF tx = particles[e].translation THEN clamped ELSE clamped + 1
    /\ IF idx = Len(order)
       THEN pc' = "idle" /\ idx' = 1
       ELSE pc' = pc /\ idx' = idx + 1
    /\ UNCHANGED <<order, links, gravity, dt, iter, caller, ticks, resets, calls,
                   nextEntity, integrated, relaxed>>

\* constrain_unliked_particles: one particle
ConstrainUnlinked ==
    /\ pc = "clamp"
    /\ LET e  == order[idx]
           tx == ParticleSatisfyConstraints(particles[e].translation)
       IN /\ particles' = [particles EXCEPT ![e].translation = tx]
          /\ clamped' = IF tx = particles[e].translation THEN clamped ELSE clamped + 1
    /\ IF idx = Len(order)
       THEN pc' = "idle" /\ idx' = 1
       ELSE pc' = pc /\ idx' = idx + 1
    /\ UNCHANGED <<order, links, gravity, dt, iter, caller, ticks, resets, calls,
                   nextEntity, integrated, relaxed>>

\* mutant of reset_particles: the links are not despawned
reset_particlesKeepLinks ==
    /\ pc = "idle"
    /\ resets < MaxResets
    /\ resets' = resets + 1
    /\ particles' = DemoParticles(nextEntity)
    /\ order' = DemoOrder(nextEntity)
    /\ links' = links \o DemoLinks(nextEntity)
    /\ nextEntity' = nextEntity + DemoEntities
    /\ UNCHANGED <<gravity, dt, pc, idx, iter, caller, ticks, calls, integrated,
                   relaxed, clamped>>

\* reset_particles (Update, on KeyR): the commands despawn every particle and
\* link, then spawn_demo_particles spawns the scene on fresh entities
reset_particles ==
    /\ pc = "idle"
    /\ resets < MaxResets
    /\ resets' = resets + 1
    /\ particles' = DemoParticles(nextEntity)
    /\ order' = DemoOrder(nextEntity)
    /\ links' = DemoLinks(nextEntity)
    /\ nextEntity' = nextEntity + DemoEntities
    /\ UNCHANGED <<gravity, dt, pc, idx, iter, caller, ticks, calls, integrated,
                   relaxed, clamped>>

Tick == BeginTick \/ Integrate \/ SatisfyConstraintsEnter \/ LoopIteration
           \/ ConstrainUnlinked

Next == Tick \/ reset_particles

Spec == Init /\ [][Next]_vars

\* ------------------------------------------ ParticleLink on bounded inputs
\* a position in world units
At(x, y) == Vec3New(Lit(x, 1), Lit(y, 1), 0)

\* endpoint a: inside the box, near its right wall, and beyond that wall
LinkInputsA == {At(-130, -150), At(-2, -150), At(3, -150)}

\* endpoint b: on a (coincident), 30, 20 and 10 away from it, beyond the wall
LinkInputsB == {At(-130, -150), At(-100, -150), At(-118, -134), At(-124, -142),
                At(6, -150)}

\* near-zero, default and double mass
LinkMasses == {0, DefaultMass, 2 * DefaultMass}

LinkTypes == {Exact(Lit(15, 1)), Min(Lit(15, 1)), Max(Lit(15, 1)), Exact(Lit(25, 1))}

\* the entities a link names: both live, b despawned, a despawned, a twice
LinkEnds == {<<1, 2>>, <<1, 3>>, <<3, 2>>, <<1, 1>>}

InitLink ==
    /\ \E t1 \in LinkInputsA, t2 \in LinkInputsB, m1 \in LinkMasses, m2 \in LinkMasses :
          particles = (1 :> NewParticle(t1, t1, m1)) @@ (2 :> NewParticle(t2, t2, m2))
    /\ order = <<1, 2>>
    /\ \E ends \in LinkEnds, link_type \in LinkTypes :
          links = <<Link(ends[1], ends[2], link_type)>>
    /\ gravity = DEFAULT_PARTICLE_GRAVITY
    /\ dt = 1
    /\ pc = "idle"
    /\ idx = 1
    /\ iter = 0
    /\ caller = "harness"
    /\ ticks = 0
    /\ resets = 0
    /\ calls = 0
    /\ nextEntity = 4
    /\ integrated = NoCounts
    /\ relaxed = <<>>
    /\ clamped = 0

\* a direct call link.satisfy_constraints(&mut particles) on the one link
CallSatisfyConstraints ==
    /\ pc = "idle"
    /\ calls < MaxCalls
    /\ calls' = calls + 1
    /\ pc' = "relax"
    /\ idx' = 1
    /\ iter' = 0
    /\ caller' = "harness"
    /\ UNCHANGED <<particles, order, links, gravity, dt, ticks, resets, nextEntity,
                   integrated, relaxed, clamped>>

NextLink == CallSatisfyConstraints \/ SatisfyConstraintsEnter \/ LoopIteration

SpecLink == InitLink /\ [][NextLink]_vars

\* ------------------------------------------------ the tick on bounded inputs
\* starting positions: inside the box, above it, below it, left of it
TickInputs == {At(-150, -150), At(-20, 2), At(-150, -301), At(-310, -5)}

\* offsets of tx_prev from the position: at rest, rising, moving right
TickPrevOffsets == {Vec3ZERO, PARTICLE_START_PREV_OFFSET, Vec3New(Lit(-6, 1), 0, 0)}

TickLinks == {<<>>, <<Link(1, 2, Exact(Lit(15, 1)))>>, <<Link(1, 2, Max(Lit(15, 1)))>>}

InitTick ==
    /\ \E t1 \in TickInputs, t2 \in TickInputs, o1 \in TickPrevOffsets, o2 \in TickPrevOffsets :
          particles = (1 :> NewParticle(t1, VAdd(t1, o1), DefaultMass))
                   @@ (2 :> NewParticle(t2, VAdd(t2, o2), DefaultMass))
    /\ order = <<1, 2>>
    /\ links \in TickLinks
    /\ gravity \in {DEFAULT_PARTICLE_GRAVITY, Vec3ZERO}
    /\ dt \in DtChoices
    /\ pc = "idle"
    /\ idx = 1
    /\ iter = 0
    /\ caller = "update_particles"
    /\ ticks = 0
    /\ resets = 0
    /\ calls = 0
    /\ nextEntity = 3
    /\ integrated = NoCounts
    /\ relaxed = <<>>
    /\ clamped = 0

SpecTick == InitTick /\ [][Tick]_vars

\* ------------------------------------------------- vocabulary of the claims
\* an iteration of the relaxation loop is about to run
AtIteration == pc = "relax" /\ iter >= 1

\* the link being relaxed and its endpoints
TheLink == links[idx]

\* what link_constraint is handed in this iteration: the clamped endpoints
EntryA == ParticleSatisfyConstraints(particles[TheLink.a].translation)

EntryB == ParticleSatisfyConstraints(particles[TheLink.b].translation)

EntryLength == VLength(VSub(EntryB, EntryA))

\* the distance between two positions that are finite
Separation(tx1, tx2) == VLength(VSub(tx2, tx1))

\* component-wise within Tolerance
Near(u, v) ==
    /\ VIsFinite(u) /\ VIsFinite(v)
    /\ \A c \in 1..3 : Abs(u[c] - v[c]) <= Tolerance

NearZeroMass(mass) == Abs(mass) < MASS_EPSILON

\* the iteration relaxes an Exact link between a particle of mass 1 (hi) and a
\* particle of near-zero mass (lo) that are apart
MassWeightingCase(hi, lo) ==
    /\ AtIteration
    /\ TheLink.link_type.kind = "Exact"
    /\ {hi, lo} = {TheLink.a, TheLink.b}
    /\ particles[hi].mass = DefaultMass
    /\ NearZeroMass(particles[lo].mass)
    /\ EntryLength > 0

\* the gap between the separation and the length of an Exact link
Gap(tx1, tx2) == Abs(Separation(tx1, tx2) - TheLink.link_type.len)

C2_CoincidentIsNoOp ==
    [][(AtIteration /\ EntryLength = 0) =>
          /\ particles'[TheLink.a].translation = EntryA
          /\ particles'[TheLink.b].translation = EntryB]_vars

\* C3: when a tick (update_particles, then constrain_unliked_particles) has
\* completed, every particle, linked or not, is inside the containment box.
C3_InBoxAfterTick ==
    (pc = "idle" /\ ticks >= 1) =>
       \A e \in DOMAIN particles : InBox(particles[e].translation)

\* C3 witness: a tick has completed in which the final clamp moved a particle
\* that no link names and left a linked pair on the boundary
C3_Witness ==
    /\ pc = "idle" /\ ticks >= 1 /\ clamped >= 1
    /\ links = <<>>
    /\ \E e \in DOMAIN particles : particles[e].translation[2] = TOP_BOUND[2]

\* C3 second witness: the same for a particle that a link names
C3_WitnessLinked ==
    /\ pc = "idle" /\ ticks >= 1 /\ clamped >= 1
    /\ links # <<>>

\* C5: one integration step with elapsed time dt sets the position to
\* 2 * position - previous_position + acceleration * dt * dt, the acceleration
\* being the gravity just accumulated, and sets previous_position to the
\* position held before the step.
C5_VerletStep ==
    [][pc = "integrate" =>
          LET e == order[idx]
              p == particles[e]
              q == particles'[e]
          IN /\ \A c \in 1..3 :
                   q.translation[c] =
                      2 * p.translation[c] - p.tx_prev[c]
                         + RoundDiv(gravity[c] * dt * dt, 64 * 64)
             /\ q.tx_prev = p.translation
             /\ q.acceleration = gravity
             /\ q.mass = p.mass
             /\ \A o \in DOMAIN particles \ {e} : particles'[o] = particles[o]
             /\ links' = links]_vars

\* C5 witness: a moving particle has been integrated under gravity with the
\* longer time step
C5_Witness ==
    /\ pc = "integrate" /\ idx = 2 /\ ticks = 2
    /\ dt = 2
    /\ gravity = DEFAULT_PARTICLE_GRAVITY
    /\ particles[1].acceleration = gravity
    /\ particles[1].translation[2] # particles[1].tx_prev[2]
    /\ particles[1].translation[1] # particles[1].tx_prev[1]

\* C4 as stated: a Min(d) link whose endpoints are more than d apart, and a
\* Max(d) link whose endpoints are less than d apart, displace nothing: one
\* application of the link constraint leaves both endpoints where they were.
C4_OneSidedNoDisplacement ==
    [][(/\ AtIteration
        /\ \/ TheLink.link_type.kind = "Min" /\ EntryLength > TheLink.link_type.len
           \/ TheLink.link_type.kind = "Max" /\ EntryLength < TheLink.link_type.len) =>
          /\ particles'[TheLink.a].translation = EntryA
          /\ particles'[TheLink.b].translation = EntryB]_vars

\* the positions of the endpoints are unchanged by the step, as f32 == sees it
EndpointsUnchanged ==
    /\ VEq(particles'[TheLink.a].translation, particles[TheLink.a].translation)
    /\ VEq(particles'[TheLink.b].translation, particles[TheLink.b].translation)

\* the relaxation loop has ended: no further iteration follows
LoopEnded == iter' = 0

\* C6: the relaxation loop runs at most NUM_ITERATIONS = 5 iterations, and an
\* iteration (clamp of both endpoints, then the link constraint) that leaves
\* both endpoints equal to what they were on entering it ends the loop, the
\* final positions being the ones that entered that iteration.
C6_EarlyExit ==
    [][AtIteration =>
          /\ iter <= 5
          /\ iter = 5 => LoopEnded
          /\ EndpointsUnchanged =>
                /\ LoopEnded
                /\ particles' = particles]_vars

\* C6 witness: an iteration before the fifth is about to run that will change
\* nothing, the iterations before it having run
C6_Witness ==
    /\ AtIteration
    /\ iter >= 2 /\ iter < NUM_ITERATIONS
    /\ VEq(LoopBody(TheLink)[1], particles[TheLink.a].translation)
    /\ VEq(LoopBody(TheLink)[2], particles[TheLink.b].translation)

\* the link names an entity that is not a live particle
MissingReference ==
    TheLink.a \notin DOMAIN particles \/ TheLink.b \notin DOMAIN particles

\* C8: relaxing a link that names a particle that no longer exists fails
\* fatally instead of skipping the link, before either endpoint is moved;
\* nothing runs after the failure.
C8_MissingReferencePanics ==
    [][/\ (pc = "relax" /\ iter = 0 /\ MissingReference) =>
             /\ pc' = "panicked"
             /\ particles' = particles
       /\ pc # "panicked"]_vars

\* C8 witness: the call on a link whose endpoint b was despawned has panicked
C8_Witness ==
    /\ pc = "panicked"
    /\ links[idx].a \in DOMAIN particles
    /\ links[idx].b \notin DOMAIN particles

\* the iteration relaxes an Exact link between two particles of equal
\* positive mass, and the boundary clamp changes neither endpoint
ExactEqualMassCase ==
    /\ AtIteration
    /\ TheLink.link_type.kind = "Exact"
    /\ particles[TheLink.a].mass = particles[TheLink.b].mass
    /\ ~NearZeroMass(particles[TheLink.a].mass)
    /\ EntryA = particles[TheLink.a].translation
    /\ EntryB = particles[TheLink.b].translation

\* the separation after the step is finite, no further from the link length
\* than before, at most half as far (within tolerance), and not on the other
\* side of it (within tolerance)
StepTowardsLength ==
    LET d      == TheLink.link_type.len
        before == EntryLength
        ta     == particles'[TheLink.a].translation
        tb     == particles'[TheLink.b].translation
        after  == Separation(ta, tb)
    IN /\ VIsFinite(ta) /\ VIsFinite(tb)
       /\ Abs(after - d) <= Abs(before - d)
       /\ 2 * Abs(after - d) <= Abs(before - d) + 2 * Tolerance
       /\ before >= d => after >= d - Tolerance
       /\ before <= d => after <= d + Tolerance

Place(ord, e) ==
    IF \E i \in 1..Len(ord) : ord[i] = e
    THEN CHOOSE i \in 1..Len(ord) : ord[i] = e
    ELSE 0

\* a scene up to the names of its entities: the particles in table order and
\* the links with the places of their endpoints
Shape(ps, ord, ls) ==
    [particles |-> [i \in 1..Len(ord) |-> ps[ord[i]]],
     links     |-> [i \in 1..Len(ls) |->
                      [a |-> Place(ord, ls[i].a), b |-> Place(ord, ls[i].b),
                       link_type |-> ls[i].link_type]]]

\* the scene of the first spawn
FirstSpawn == Shape(DemoParticles(0), DemoOrder(0), DemoLinks(0))

\* C9: a scene reset, from any reachable state and any number of times,
\* discards every particle and link there was and leaves exactly the scene of
\* the first spawn: 7 particles with the same positions, previous positions,
\* masses and accelerations and 7 links of the same kinds, lengths and
\* endpoints.
C9_ResetRestoresScene ==
    [][resets' # resets =>
          /\ Shape(particles', order', links') = FirstSpawn
          /\ Len(order') = 7 /\ Len(links') = 7
          /\ Cardinality(DOMAIN particles') = 7
          /\ DOMAIN particles' \cap DOMAIN particles = {}
          /\ \A i \in 1..7 : links'[i].a \in DOMAIN particles'
                          /\ links'[i].b \in DOMAIN particles']_vars

\* C9 witness: the scene is that of the first spawn again after two resets,
\* the second taken after a tick in which particles were stopped at the wall
C9_Witness ==
    /\ resets = 2 /\ ticks >= 2 /\ pc = "idle" /\ clamped >= 1
    /\ Shape(particles, order, links) = FirstSpawn
    /\ 0 \notin DOMAIN particles

\* every particle has been integrated exactly once in this tick, with the
\* gravity as its acceleration
AllIntegrated ==
    \A e \in DOMAIN particles :
       integrated[e] = 1 /\ particles[e].acceleration = gravity

\* C10: within a tick every particle is integrated exactly once (gravity as
\* its acceleration, then the Verlet step) before any link is relaxed, every
\* link is then relaxed exactly once, and the final boundary clamp runs only
\* after all links have been relaxed.
C10_StagesInOrder ==
    /\ pc = "integrate" =>
          /\ \A i \in 1..Len(order) :
                integrated[order[i]] = (IF i < idx THEN 1 ELSE 0)
          /\ \A i \in 1..Len(links) : relaxed[i] = 0
          /\ clamped = 0
    /\ pc = "relax" =>
          /\ AllIntegrated
          /\ \A i \in 1..Len(links) :
                relaxed[i] = (IF i < idx \/ (i = idx /\ iter >= 1) THEN 1 ELSE 0)
          /\ clamped = 0
    /\ pc = "clamp" =>
          /\ AllIntegrated
          /\ \A i \in 1..Len(links) : relaxed[i] = 1
    /\ (pc = "idle" /\ ticks >= 1) =>
          /\ \A e \in DOMAIN integrated : integrated[e] = 1
          /\ \A i \in DOMAIN relaxed : relaxed[i] = 1

\* C10 witness: the final clamp of a tick is running on the demo scene, its
\* 7 particles integrated and its 7 links relaxed
C10_Witness ==
    /\ pc = "clamp" /\ idx = 7
    /\ Len(links) = 7
    /\ AllIntegrated
    /\ \A i \in 1..7 : relaxed[i] = 1

\* C11 as stated: a particle the link constraint pushes outside the box is
\* clamped back in the same iteration: at the end of every iteration of the
\* relaxation loop (of endpoints that are apart), and so when
\* ParticleLink::satisfy_constraints returns, both endpoints are in the box.
C11_InBoxAfterIteration ==
    [][(AtIteration /\ EntryLength > 0) =>
          /\ InBox(particles'[TheLink.a].translation)
          /\ InBox(particles'[TheLink.b].translation)]_vars

\* C11 amended: in every iteration the clamp runs before the link constraint:
\* the endpoints at the end of the iteration are what the link constraint made
\* of the clamped endpoints, unclamped, so an endpoint it pushes outside the
\* box stays outside until the clamp of the next iteration or, once the loop
\* has returned, until the final clamp of the same tick, which puts every
\* particle it visits in the box.
C11_ClampedNextPass ==
    [][/\ AtIteration =>
             /\ InBox(EntryA) /\ InBox(EntryB)
             /\ <<particles'[TheLink.a].translation, particles'[TheLink.b].translation>>
                   = link_constraint(EntryA, particles[TheLink.a].mass,
                                     EntryB, particles[TheLink.b].mass,
                                     TheLink.link_type)
       /\ pc = "clamp" => InBox(particles'[order[idx]].translation)]_vars

\* C11 witness: every link has been relaxed and the final clamp is about to
\* visit a linked particle that the link constraint left outside the box
C11_Witness ==
    /\ pc = "clamp"
    /\ links # <<>>
    /\ \E i \in idx..Len(order) :
          /\ VIsFinite(particles[order[i]].translation)
          /\ ~InBox(particles[order[i]].translation)

====
